---- MODULE Spec2Model ----
(***************************************************************************)
(* Model of ConnectLoop (src/connect_loop.py): the selection pruning by    *)
(* boundary vertices, the bounded recursive collection of linked selected  *)
(* vertices, the greedy nearest-vertex loop with its step counter, the     *)
(* chunking of the loop into vertex pairs and the write-back of the mesh.  *)
(*                                                                         *)
(* A vertex is its index (bm.verts[index]); an edge is the set of its two  *)
(* vertices.  ob.data is (mesh_edges, mesh_sel); the bmesh working copy is *)
(* (edges, sel).  bpy_bmesh hashes a vertex by its address, so the order   *)
(* in which a Python set of vertices is iterated is not fixed by the code: *)
(* _linked_verts is modelled by the set of the results it can return.      *)
(* connect_vert_pair / edges.new are modelled by their joint contract:     *)
(* afterwards the two vertices of the pair are joined by an edge.          *)
(***************************************************************************)
EXTENDS Integers, Sequences, FiniteSets

VARIABLES
    nverts,             \* number of vertices of the mesh (len(bm.verts))
    layout,             \* which coordinates the vertices have (see Co)
    mesh_edges,         \* ob.data: edges
    mesh_sel,           \* ob.data: selected vertices
    active,             \* bm.select_history.active (None when there is none)
    boundary_priority,  \* argument of connect_loop
    pc,                 \* position inside connect_loop
    edges,              \* bm: edges
    sel,                \* bm: selected vertices (vertex.select)
    pv,                 \* position of the generator over bm.verts (line 56)
    kd,                 \* indices inserted into the KDTree
    selected_vertices,  \* local selected_vertices
    loop,               \* local loop
    current_vertex,     \* local current_vertex
    linked_verts,       \* local linked_verts
    _l,                 \* local _l
    _i,                 \* local _i
    overflow,           \* 'overflow err exit' was printed
    chunks,             \* the chunks handed to edge creation (line 104)
    run,                \* number of the current invocation of connect_loop
    iters,              \* history: iterations of the while loop in this run
    edges0,             \* history: edges of the mesh when this run started
    sel0,               \* history: selected vertices of the mesh when this run started
    first_full,         \* history: the previous run put every selected vertex in its loop
    first_len,          \* history: len(loop) of the previous run
    lv_edges,           \* _linked_verts on its own: edges of the graph
    lv_sel,             \* _linked_verts on its own: selected vertices
    lv_seed,            \* _linked_verts on its own: bm_vert
    lv_deep,            \* _linked_verts on its own: deep
    lv_result           \* _linked_verts on its own: returned set (None before the call)

vars == <<nverts, layout, mesh_edges, mesh_sel, active, boundary_priority, pc,
          edges, sel, pv, kd, selected_vertices, loop, current_vertex,
          linked_verts, _l, _i, overflow, chunks, run, iters, edges0, sel0,
          first_full, first_len, lv_edges, lv_sel, lv_seed, lv_deep, lv_result>>

meshVars == <<nverts, layout, active>>
lvVars == <<lv_edges, lv_sel, lv_seed, lv_deep, lv_result>>
clVars == <<nverts, layout, mesh_edges, mesh_sel, active, boundary_priority, pc,
            edges, sel, pv, kd, selected_vertices, loop, current_vertex,
            linked_verts, _l, _i, overflow, chunks, run, iters, edges0, sel0,
            first_full, first_len>>

----------------------------------------------------------------------------
(* Bounds *)

NVerts == 4         \* vertices of the small meshes
MaxEdges == 3       \* edges of the small meshes before the first run
MaxRuns == 2        \* invocations of connect_loop on the same mesh
NLVVerts == 6       \* vertices of the graphs _linked_verts is called on alone
MaxLVEdges == 6     \* edges of those graphs
MaxDeep == 3        \* largest deep _linked_verts is called with alone

(* Program constants *)

None == -1
_linked_verts_recursive_deep == 10

\* the long meshes: a row of vertices just longer than the recursion reaches
ChainVerts == _linked_verts_recursive_deep + 3

----------------------------------------------------------------------------
(* Helpers *)

Range(s) == {s[k] : k \in 1..Len(s)}

AllEdges(n) == {e \in SUBSET (0..(n - 1)) : Cardinality(e) = 2}

ChainEdges(n) == {{k, k + 1} : k \in 0..(n - 2)}

\* vertex.co
Co(lay, v) == IF lay = "line" THEN <<v, 0>> ELSE <<v % 2, v \div 2>>

\* the distance KDTree.find orders by (squared: the order is the same)
Dist(lay, a, b) ==
    LET ca == Co(lay, a)
        cb == Co(lay, b)
    IN  (ca[1] - cb[1]) * (ca[1] - cb[1]) + (ca[2] - cb[2]) * (ca[2] - cb[2])

\* len(vertex.link_edges)
LinkEdges(E, v) == {e \in E : v \in e}

----------------------------------------------------------------------------
(* _linked_verts: the sets it can return, over the orders in which the     *)
(* set selected_linked_verts can be iterated.  verts is shared by all the  *)
(* recursive calls (it is passed and updated in place).                    *)

\* _linked_verts without the recursive calls: only the direct neighbours
LinkedVertsDirect(E, S, bm_vert, deep, verts) ==
    IF deep > 0
    THEN {verts \cup {w \in S : {bm_vert, w} \in E /\ w \notin verts}}
    ELSE {verts}

RECURSIVE LinkedVerts(_, _, _, _, _)
RECURSIVE LinkedVertsFor(_, _, _, _, _)

LinkedVerts(E, S, bm_vert, deep, verts) ==
    IF deep > 0
    THEN LET selected_linked_verts ==
                 {w \in S : {bm_vert, w} \in E /\ w \notin verts}
         IN  LinkedVertsFor(E, S, selected_linked_verts, deep,
                            verts \cup selected_linked_verts)
    ELSE {verts}

\* the for loop of line 129 over the vertices of todo still to be visited
LinkedVertsFor(E, S, todo, deep, verts) ==
    IF todo = {}
    THEN {verts}
    ELSE UNION { UNION { LinkedVertsFor(E, S, todo \ {vert}, deep, r) :
                         r \in LinkedVerts(E, S, vert, deep - 1, verts) } :
                 vert \in todo }

----------------------------------------------------------------------------
(* _chunks(lst, n, offset) as the list of the slices it yields *)

Min(a, b) == IF a < b THEN a ELSE b

\* lst[i:i + n], i 0-based
Slice(lst, i, n) == SubSeq(lst, i + 1, Min(i + n, Len(lst)))

RECURSIVE ChunksFrom(_, _, _, _)
ChunksFrom(lst, n, step, i) ==
    IF i >= Len(lst) THEN << >>
    ELSE <<Slice(lst, i, n)>> \o ChunksFrom(lst, n, step, i + step)

\* _chunks stepping by n: the offset is not subtracted
ChunksNoOffset(lst, n, offset) == ChunksFrom(lst, n, n, 0)

\* range(0, len(lst), n - offset)
Chunks(lst, n, offset) == ChunksFrom(lst, n, n - offset, 0)

\* the generator of line 104: chunks of exactly two vertices
PairChunks(lst) == SelectSeq(Chunks(lst, 2, 1), LAMBDA c : Len(c) = 2)

----------------------------------------------------------------------------
(* The loop body's helpers *)

\* flt without the test against selected_vertices
FltNotInLoop(index, lp, sv) == index \notin Range(lp)

\* flt (lines 75-80)
Flt(index, lp, sv) == index \notin Range(lp) /\ index \in sv

\* kd.find(co, filter): the indices it can return (None when nothing passes)
KdFind(lay, tree, cur, lp, sv) ==
    LET pass == {x \in tree : Flt(x, lp, sv)}
    IN  IF pass = {} THEN {None}
        ELSE {x \in pass : \A y \in pass : Dist(lay, x, cur) <= Dist(lay, y, cur)}

\* bm.verts[index] if index else None (line 92): 0 and None are both falsy
VertOrNone(index) == IF index = None \/ index = 0 THEN None ELSE index

\* the counter is not incremented
StepCounterStuck(i) == i

\* _i += 1 (line 97)
StepCounter(i) == i + 1

\* if _i > _l (line 98)
OverflowGuard(i, l) == i > l

\* the boundary vertex is not taken out of the set to deselect
PruneTargetsAll(linked, vertex) == linked

\* linked_to_boundary_verts -= {vertex} (line 59)
PruneTargets(linked, vertex) == linked \ {vertex}

\* the selected boundary vertices the generator of line 56 has still to yield
BoundaryFrom(E, S, n, from) ==
    {v \in from..(n - 1) : v \in S /\ Cardinality(LinkEdges(E, v)) = 1}

SetMin(S) == CHOOSE x \in S : \A y \in S : x <= y

----------------------------------------------------------------------------
(* Initial states *)

LocalsInit ==
    /\ boundary_priority = FALSE
    /\ pc = "start"
    /\ edges = {}
    /\ sel = {}
    /\ pv = 0
    /\ kd = {}
    /\ selected_vertices = {}
    /\ loop = << >>
    /\ current_vertex = None
    /\ linked_verts = {}
    /\ _l = 0
    /\ _i = 0
    /\ overflow = FALSE
    /\ chunks = << >>
    /\ run = 1
    /\ iters = 0
    /\ edges0 = {}
    /\ sel0 = {}
    /\ first_full = FALSE
    /\ first_len = 0

LvIdle ==
    /\ lv_edges = {}
    /\ lv_sel = {}
    /\ lv_seed = 0
    /\ lv_deep = 0
    /\ lv_result = {None}

\* a small mesh: any edges (at most MaxEdges), any selection, any active vertex
SmallMesh ==
    /\ nverts = NVerts
    /\ layout \in {"line", "grid"}
    /\ mesh_edges \in {E \in SUBSET AllEdges(NVerts) : Cardinality(E) <= MaxEdges}
    /\ mesh_sel \in SUBSET (0..(NVerts - 1))
    /\ active \in (0..(NVerts - 1)) \cup {None}

\* a long mesh: a row of vertices, unconnected or chained, a prefix selected
LongMesh ==
    /\ nverts = ChainVerts
    /\ layout = "line"
    /\ mesh_edges \in {{}, ChainEdges(ChainVerts)}
    /\ mesh_sel \in {0..(m - 1) : m \in 1..ChainVerts}
    /\ active = 0

Init ==
    /\ SmallMesh \/ LongMesh
    /\ LocalsInit
    /\ LvIdle

----------------------------------------------------------------------------
(* connect_loop *)

\* lines 39-50: the working copy is read from the mesh
Start ==
    /\ pc = "start"
    /\ \E bp \in BOOLEAN :
          /\ boundary_priority' = bp
          /\ pc' = IF bp THEN "prune" ELSE "seed"
    /\ edges' = mesh_edges
    /\ sel' = mesh_sel
    /\ edges0' = mesh_edges
    /\ sel0' = mesh_sel
    /\ pv' = 0
    /\ UNCHANGED <<meshVars, mesh_edges, mesh_sel, kd, selected_vertices, loop,
                   current_vertex, linked_verts, _l, _i, overflow, chunks, run,
                   iters, first_full, first_len, lvVars>>

\* lines 56-61: the next selected boundary vertex deselects what is linked to it
PruneVertex ==
    /\ pc = "prune"
    /\ BoundaryFrom(edges, sel, nverts, pv) # {}
    /\ LET vertex == SetMin(BoundaryFrom(edges, sel, nverts, pv))
       IN  /\ \E linked_to_boundary_verts \in
                    LinkedVerts(edges, sel, vertex, _linked_verts_recursive_deep, {vertex}) :
                 sel' = sel \ PruneTargets(linked_to_boundary_verts, vertex)
           /\ pv' = vertex + 1
    /\ UNCHANGED <<meshVars, mesh_edges, mesh_sel, boundary_priority, pc, edges, kd,
                   selected_vertices, loop, current_vertex, linked_verts, _l, _i,
                   overflow, chunks, run, iters, edges0, sel0, first_full, first_len, lvVars>>

\* line 62: the generator is exhausted
PruneDone ==
    /\ pc = "prune"
    /\ BoundaryFrom(edges, sel, nverts, pv) = {}
    /\ pc' = "seed"
    /\ pv' = nverts
    /\ UNCHANGED <<meshVars, mesh_edges, mesh_sel, boundary_priority, edges, sel, kd,
                   selected_vertices, loop, current_vertex, linked_verts, _l, _i,
                   overflow, chunks, run, iters, edges0, sel0, first_full, first_len, lvVars>>

\* lines 64-85; list.remove raises ValueError when the active vertex is not selected
Seed ==
    /\ pc = "seed"
    /\ kd' = sel
    /\ IF active = None
       THEN /\ pc' = "write"
            /\ selected_vertices' = sel
            /\ UNCHANGED <<loop, current_vertex, _l, _i>>
       ELSE IF active \notin sel
       THEN /\ pc' = "error"
            /\ UNCHANGED <<selected_vertices, loop, current_vertex, _l, _i>>
       ELSE /\ pc' = "extend"
            /\ loop' = <<active>>
            /\ selected_vertices' = sel \ {active}
            /\ current_vertex' = active
            /\ _l' = Cardinality(sel \ {active})
            /\ _i' = 0
    /\ UNCHANGED <<meshVars, mesh_edges, mesh_sel, boundary_priority, edges, sel, pv,
                   linked_verts, overflow, chunks, run, iters, edges0, sel0, first_full,
                   first_len, lvVars>>

\* lines 86-100: one iteration of the while loop
Extend ==
    /\ pc = "extend"
    /\ current_vertex # None
    /\ \E lv \in LinkedVerts(edges, sel, current_vertex,
                             _linked_verts_recursive_deep, {current_vertex}) :
         \E index \in KdFind(layout, kd, current_vertex, loop, selected_vertices \ lv) :
            LET next == VertOrNone(index)
                stop == OverflowGuard(StepCounter(_i), _l)
            IN  /\ linked_verts' = lv
                /\ current_vertex' = next
                /\ loop' = IF next # None THEN Append(loop, next) ELSE loop
                /\ selected_vertices' = IF next # None
                                        THEN (selected_vertices \ lv) \ {next}
                                        ELSE selected_vertices \ lv
                /\ _i' = StepCounter(_i)
                /\ overflow' = stop
                /\ pc' = IF stop \/ next = None THEN "emit" ELSE "extend"
    /\ iters' = iters + 1
    /\ UNCHANGED <<meshVars, mesh_edges, mesh_sel, boundary_priority, edges, sel, pv,
                   kd, _l, chunks, run, edges0, sel0, first_full, first_len, lvVars>>

\* lines 104-111: an edge for every pair of consecutive loop vertices
Emit ==
    /\ pc = "emit"
    /\ chunks' = PairChunks(loop)
    /\ edges' = edges \cup {{c[1], c[2]} : c \in Range(PairChunks(loop))}
    /\ pc' = "write"
    /\ UNCHANGED <<meshVars, mesh_edges, mesh_sel, boundary_priority, sel, pv, kd,
                   selected_vertices, loop, current_vertex, linked_verts, _l, _i,
                   overflow, run, iters, edges0, sel0, first_full, first_len, lvVars>>

\* lines 113-116: bm.to_mesh(ob.data)
Write ==
    /\ pc = "write"
    /\ mesh_edges' = edges
    /\ mesh_sel' = sel
    /\ pc' = "done"
    /\ UNCHANGED <<meshVars, boundary_priority, edges, sel, pv, kd, selected_vertices,
                   loop, current_vertex, linked_verts, _l, _i, overflow, chunks, run,
                   iters, edges0, sel0, first_full, first_len, lvVars>>

\* the operator is executed again on the mesh the previous run wrote back
Rerun ==
    /\ pc = "done"
    /\ run < MaxRuns
    /\ run' = run + 1
    /\ first_full' = (Range(loop) = mesh_sel)
    /\ first_len' = Len(loop)
    /\ pc' = "start"
    /\ boundary_priority' = FALSE
    /\ edges' = {}
    /\ sel' = {}
    /\ pv' = 0
    /\ kd' = {}
    /\ selected_vertices' = {}
    /\ loop' = << >>
    /\ current_vertex' = None
    /\ linked_verts' = {}
    /\ _l' = 0
    /\ _i' = 0
    /\ overflow' = FALSE
    /\ chunks' = << >>
    /\ iters' = 0
    /\ UNCHANGED <<meshVars, mesh_edges, mesh_sel, edges0, sel0, lvVars>>

Next ==
    \/ Start
    \/ PruneVertex
    \/ PruneDone
    \/ Seed
    \/ Extend
    \/ Emit
    \/ Write
    \/ Rerun

Spec == Init /\ [][Next]_vars

----------------------------------------------------------------------------
(* _linked_verts called on its own *)

ClIdle ==
    /\ nverts = 0
    /\ layout = "line"
    /\ mesh_edges = {}
    /\ mesh_sel = {}
    /\ active = None
    /\ LocalsInit

\* all but at most one vertex selected
InitLinked ==
    /\ ClIdle
    /\ lv_edges \in {E \in SUBSET AllEdges(NLVVerts) : Cardinality(E) <= MaxLVEdges}
    /\ lv_sel \in {(0..(NLVVerts - 1)) \ D : D \in {{}} \cup {{v} : v \in 0..(NLVVerts - 1)}}
    /\ lv_seed = 0
    /\ lv_deep \in 0..MaxDeep
    /\ lv_result = {None}

CallLinkedVerts ==
    /\ lv_result = {None}
    /\ lv_result' \in LinkedVerts(lv_edges, lv_sel, lv_seed, lv_deep, {lv_seed})
    /\ UNCHANGED <<clVars, lv_edges, lv_sel, lv_seed, lv_deep>>

NextLinked == CallLinkedVerts

SpecLinked == InitLinked /\ [][NextLinked]_vars

----------------------------------------------------------------------------
(* Properties *)

RunStarted == pc # "start"
LoopBuilt == pc \in {"extend", "emit", "write", "done"}

\* the points that pass the filter once lv has been removed from the candidates
Eligible(lv) == {x \in kd : x \in selected_vertices \ lv /\ x \notin Range(loop)}

\* C1: in every iteration of the while loop, if a point is eligible after the
\* linked points were removed (in the candidates, not in the loop), an
\* eligible point nearest to the tip is appended to the loop, removed from
\* the candidates and becomes the tip; the loop ends with no next point only
\* when no point is eligible.  Whatever the index of the point.
C1_EligibleNearestAppended ==
    [][pc = "extend" =>
         LET elig == Eligible(linked_verts')
             last == loop'[Len(loop')]
         IN  /\ elig # {} =>
                   /\ loop' = Append(loop, last)
                   /\ last \in elig
                   /\ \A y \in elig : Dist(layout, last, current_vertex)
                                         <= Dist(layout, y, current_vertex)
                   /\ last \notin selected_vertices'
                   /\ current_vertex' = last
             /\ current_vertex' = None => elig = {}]_vars

RECURSIVE Within(_, _, _, _)
Within(E, S, R, d) ==
    IF d = 0 THEN R
    ELSE Within(E, S, R \cup {w \in S : \E v \in R : {v, w} \in E}, d - 1)

\* C3: _linked_verts(seed, d) returns exactly the seed and the selected
\* points a path of at most d edges over selected points reaches from it.
C3_LinkedVertsExact ==
    (lv_result # {None} /\ lv_seed \in lv_sel) =>
        lv_result = Within(lv_edges, lv_sel, {lv_seed}, lv_deep)

\* the connected cluster of selected points that contains v
RECURSIVE ClusterFrom(_, _, _)
ClusterFrom(E, S, R) ==
    LET R2 == R \cup {w \in S : \E v \in R : {v, w} \in E}
    IN  IF R2 = R THEN R ELSE ClusterFrom(E, S, R2)

Cluster(E, S, v) == ClusterFrom(E, S, {v})

BoundaryOf(E, K) == {x \in K : Cardinality(LinkEdges(E, x)) = 1}

Pruned == boundary_priority /\ pc \in {"seed", "extend", "emit", "write", "error"}

\* C4 as stated: after the pruning, of every cluster of selected points with
\* exactly one boundary point only the boundary point is selected, whatever
\* the size of the cluster.
C4_OnlyBoundaryLeftAnySize ==
    Pruned =>
        \A b \in sel0 :
            LET K == Cluster(edges0, sel0, b)
            IN  BoundaryOf(edges0, K) = {b} => sel \cap K = {b}

\* C4 amended: after the pruning, of every cluster of selected points with
\* exactly one boundary point and at most _linked_verts_recursive_deep + 1
\* points, only the boundary point is selected.
C4_OnlyBoundaryLeft ==
    Pruned =>
        \A b \in sel0 :
            LET K == Cluster(edges0, sel0, b)
            IN  (/\ BoundaryOf(edges0, K) = {b}
                 /\ Cardinality(K) <= _linked_verts_recursive_deep + 1)
                => sel \cap K = {b}

C4_Witness ==
    /\ Pruned
    /\ pc = "seed"
    /\ \E b \in sel0 :
          LET K == Cluster(edges0, sel0, b)
          IN  /\ BoundaryOf(edges0, K) = {b}
              /\ Cardinality(K) >= 3
              /\ Cardinality(K) <= _linked_verts_recursive_deep + 1
              /\ sel \cap K = {b}

\* C5 as stated: a run after a run that put every selected point in its loop
\* creates no edge and leaves the edges of the mesh as they were, whatever
\* the length of the loop.
C5_SecondRunNoOpAnyLength ==
    (run > 1 /\ first_full /\ RunStarted) =>
        /\ edges = edges0
        /\ chunks = << >>
        /\ pc = "done" => mesh_edges = edges0

\* C5 amended: a run after a run that put every selected point in its loop,
\* a loop of at most _linked_verts_recursive_deep + 1 points, creates no
\* edge and leaves the edges of the mesh as they were.
C5_SecondRunNoOp ==
    (run > 1 /\ first_full /\ first_len <= _linked_verts_recursive_deep + 1
       /\ RunStarted) =>
        /\ edges = edges0
        /\ chunks = << >>
        /\ pc = "done" => mesh_edges = edges0

C5_Witness ==
    /\ run > 1
    /\ first_full
    /\ first_len >= 3
    /\ first_len <= _linked_verts_recursive_deep + 1
    /\ pc = "done"
    /\ Len(loop) = 1
    /\ mesh_edges = edges0

\* C6: the loop has no point twice, its points are points still selected
\* after the pruning, it shares no point with the candidates; an iteration
\* only removes candidates, and the point it appends was a candidate (after
\* the linked points were removed) and was not in the loop.
C6_LoopInv ==
    /\ [](LoopBuilt =>
            /\ \A j, k \in 1..Len(loop) : loop[j] = loop[k] => j = k
            /\ Range(loop) \subseteq kd
            /\ kd = sel
            /\ Range(loop) \cap selected_vertices = {})
    /\ [][pc = "extend" =>
            /\ selected_vertices' \subseteq selected_vertices
            /\ loop' # loop =>
                 LET last == loop'[Len(loop')]
                 IN  /\ loop' = Append(loop, last)
                     /\ last \in selected_vertices \ linked_verts'
                     /\ last \notin Range(loop)
                     /\ last \notin selected_vertices']_vars

C6_Witness ==
    /\ pc = "emit"
    /\ Len(loop) >= 3
    /\ kd \ Range(loop) # {}
    /\ selected_vertices = {}

\* C7: the while loop makes at most initialCandidateCount + 1 iterations
\* (the selected points other than the active one, after the pruning); _i
\* counts them, and an iteration starts only while _i <= _l.
C7_IterationBound ==
    (LoopBuilt /\ active # None) =>
        /\ _l = Cardinality(kd \ {active})
        /\ iters = _i
        /\ iters <= _l + 1
        /\ pc = "extend" => iters <= _l

C7_Witness ==
    /\ pc = "emit"
    /\ _l >= 2
    /\ iters = _l + 1

\* C8: without an active point, or with an active point that is not
\* selected, connect_loop raises no error, creates no edge and leaves the
\* edges and the selection of the mesh as they were.
C8_NoSeedIsNoOp ==
    (RunStarted /\ (active = None \/ active \notin sel0)) =>
        /\ pc # "error"
        /\ edges = edges0
        /\ pc = "done" => (mesh_edges = edges0 /\ mesh_sel = sel0)

Max(a, b) == IF a > b THEN a ELSE b

\* C9: the edge creation receives max(n - 1, 0) chunks for a loop of n
\* points: chunk k is <<loop[k], loop[k + 1]>>, in loop order.
C9_ChunksAreConsecutivePairs ==
    pc \in {"write", "done"} =>
        /\ Len(chunks) = Max(Len(loop) - 1, 0)
        /\ \A k \in 1..Len(chunks) : chunks[k] = <<loop[k], loop[k + 1]>>

C9_Witness ==
    /\ pc = "done"
    /\ Len(loop) >= 4
    /\ Len(chunks) = Len(loop) - 1

\* C10: a run whose last nearest-vertex query found no next point reports
\* no overflow.
C10_OverflowOnlyWhenCounterStops ==
    (pc \in {"emit", "write", "done"} /\ loop # << >> /\ current_vertex = None)
        => ~overflow

====
